---- MODULE Spec2Model ----
(***************************************************************************)
(* A model of the Rap Analyzer & Music Comparison application              *)
(* (src/app.py, src/streamlit_app.py): the transcript analyzer             *)
(* (find_rhyme_pairs, calculate_rap_speed, calculate_rap_rating), the      *)
(* Rap Analyzer page with its session state, and the Music Comparison      *)
(* page with difflib's SequenceMatcher.                                    *)
(*                                                                         *)
(* Numbers.  Times are in tenths of a second and confidences in            *)
(* hundredths, so 0.2 s is 2 and 0.8 is 80.  A ratio k/n is kept as the    *)
(* record [num |-> k, den |-> n]; comparisons cross-multiply.  The source  *)
(* computes in binary floating point, the model exactly.  The two can      *)
(* differ only where an exact value meets a threshold (a mean duration of  *)
(* exactly 0.2 ... 1.0 s, a weighted sum of exactly 1.0) and the float     *)
(* result is rounded to the other side of it.  On the word lists used      *)
(* below (the durations of Durations, the words following one another from *)
(* time 0, up to five words) the float results of the source fall on the   *)
(* same side of every threshold as the exact ones; 2.0 * 7 / 20 * 100 is   *)
(* 70.0 in floating point too.                                             *)
(*                                                                         *)
(* Text.  A word or a lyric is a sequence of one-character strings.        *)
(***************************************************************************)
EXTENDS Integers, Sequences, FiniteSets, TLC

VARIABLES
    response,     \* analyzer: the argument of calculate_rap_rating
    rating,       \* analyzer: what calculate_rap_rating returned, or Pending
    locals,       \* analyzer: the locals of calculate_rap_rating at its return
    speed,        \* analyzer: what calculate_rap_speed returned, or Pending
    song1,        \* Music Comparison: first text area
    song2,        \* Music Comparison: second text area
    comparison,   \* Music Comparison: what the last page run displayed
    session,      \* Rap Analyzer page: st.session_state
    lastRun       \* Rap Analyzer page: what the last page run did

vars == <<response, rating, locals, speed, song1, song2, comparison, session, lastRun>>

analyzerVars == <<response, rating, locals, speed>>
compareVars == <<song1, song2, comparison>>
pageVars == <<session, lastRun>>

-----------------------------------------------------------------------------
(* Bounds *)

\* Longest word list of a transcript.
MaxWords == 4

-----------------------------------------------------------------------------
(* Helpers *)

\* the locals of a call that returned before computing them
Unset == [set |-> FALSE]

\* a function that has not returned yet
Pending == [returned |-> FALSE]

Returned(v) == [returned |-> TRUE, value |-> v]

Min(a, b) == IF a < b THEN a ELSE b
Max(a, b) == IF a > b THEN a ELSE b

RECURSIVE SumSeq(_)
SumSeq(s) == IF s = <<>> THEN 0 ELSE Head(s) + SumSeq(Tail(s))

Range(s) == {s[i] : i \in DOMAIN s}

Ratio(k, n) == [num |-> k, den |-> n]
Zero == Ratio(0, 1)

\* equality of ratios with positive denominators
RatioEq(a, b) == a.num * b.den = b.num * a.den

-----------------------------------------------------------------------------
(* str.lower() on the letters the inputs use *)

UpperToLower ==
    ("A" :> "a") @@ ("B" :> "b") @@ ("G" :> "g") @@ ("L" :> "l") @@
    ("O" :> "o") @@ ("S" :> "s") @@ ("W" :> "w")

LowerCharIdentity(c) == c

LowerChar(c) == IF c \in DOMAIN UpperToLower THEN UpperToLower[c] ELSE c

Lower(s) == [i \in DOMAIN s |-> LowerChar(s[i])]

\* s[-3:]: the last three characters, the whole string when it is shorter
Last3(s) == SubSeq(s, Max(1, Len(s) - 2), Len(s))

-----------------------------------------------------------------------------
(* find_rhyme_pairs *)

RhymesCaseSensitive(a, b) == Last3(a) = Last3(b)

\* line 69
Rhymes(a, b) == Lower(Last3(a)) = Lower(Last3(b))

\* the loops over i and j > i, appending (words[i], words[j]) on a match
RECURSIVE RhymeLoop(_, _, _)
RhymeLoop(words, i, j) ==
    IF i > Len(words) THEN <<>>
    ELSE IF j > Len(words) THEN RhymeLoop(words, i + 1, i + 2)
    ELSE (IF Rhymes(words[i], words[j]) THEN << <<words[i], words[j]>> >> ELSE <<>>)
         \o RhymeLoop(words, i, j + 1)

find_rhyme_pairs(words) == RhymeLoop(words, 1, 2)

-----------------------------------------------------------------------------
(* calculate_rap_speed: flow_data is a list of (word, start, end) *)

WordDurations(flow_data) == [i \in DOMAIN flow_data |-> flow_data[i][3] - flow_data[i][2]]

\* The if/elif chain on avg = total / n, in tenths of a second: avg < t/10 is
\* total < t * n.
SpeedOfAverageInclusive(total, n) ==
    IF total <= 2 * n THEN 10
    ELSE IF total <= 3 * n THEN 9
    ELSE IF total <= 4 * n THEN 8
    ELSE IF total <= 5 * n THEN 7
    ELSE IF total <= 6 * n THEN 6
    ELSE IF total <= 7 * n THEN 5
    ELSE IF total <= 8 * n THEN 4
    ELSE IF total <= 9 * n THEN 3
    ELSE IF total <= 10 * n THEN 2
    ELSE 1

SpeedOfAverage(total, n) ==
    IF total < 2 * n THEN 10
    ELSE IF total < 3 * n THEN 9
    ELSE IF total < 4 * n THEN 8
    ELSE IF total < 5 * n THEN 7
    ELSE IF total < 6 * n THEN 6
    ELSE IF total < 7 * n THEN 5
    ELSE IF total < 8 * n THEN 4
    ELSE IF total < 9 * n THEN 3
    ELSE IF total < 10 * n THEN 2
    ELSE 1

calculate_rap_speed_NoEmptyCheck(flow_data) ==
    SpeedOfAverage(SumSeq(WordDurations(flow_data)), Len(flow_data))

calculate_rap_speed(flow_data) ==
    IF flow_data = <<>> THEN 0
    ELSE SpeedOfAverage(SumSeq(WordDurations(flow_data)), Len(flow_data))

-----------------------------------------------------------------------------
(* The Deepgram response: results.channels[0].alternatives[0].{transcript, words} *)

\* present is FALSE for Python's None
None == [present |-> FALSE, channels |-> <<>>]

Response(transcript, words) ==
    [present  |-> TRUE,
     channels |-> << [alternatives |-> << [transcript |-> transcript, words |-> words] >>] >>]

NoChannels == [present |-> TRUE, channels |-> <<>>]
NoAlternatives == [present |-> TRUE, channels |-> << [alternatives |-> <<>>] >>]

HasAlternative(r) == r.channels # <<>> /\ r.channels[1].alternatives # <<>>

\* lines 116-120 and 224-228
WordsOf(r) == IF HasAlternative(r) THEN r.channels[1].alternatives[1].words ELSE <<>>

\* lines 183-187
TranscriptOf(r) ==
    IF HasAlternative(r) THEN r.channels[1].alternatives[1].transcript
    ELSE "No transcript available"

-----------------------------------------------------------------------------
(* calculate_rap_rating *)

Texts(words) == [i \in DOMAIN words |-> words[i].word]

FlowData(words) == [i \in DOMAIN words |-> <<words[i].word, words[i].start, words[i].end>>]

\* line 127
RhymeDensity(words) ==
    IF words # <<>> THEN Ratio(Len(find_rhyme_pairs(Texts(words))), Len(words)) ELSE Zero

\* lines 134-135
WordComplexity(words) ==
    IF words # <<>> THEN Ratio(Cardinality(Range(Texts(words))), Len(words)) ELSE Zero

\* lines 138-139: 1 - low / n
LowConfidenceWords(words) == SelectSeq(words, LAMBDA w : w.confidence < 80)

ConfidenceRatingLowShare(words) ==
    IF words # <<>> THEN Ratio(Len(LowConfidenceWords(words)), Len(words)) ELSE Zero

ConfidenceRating(words) ==
    IF words # <<>> THEN Ratio(Len(words) - Len(LowConfidenceWords(words)), Len(words))
    ELSE Zero

\* lines 142-146
WordCount(words, t) == Cardinality({i \in DOMAIN words : words[i].word = t})

RepeatedWords(words) == {t \in Range(Texts(words)) : WordCount(words, t) > 1}

EmphasisRating(words) ==
    IF words # <<>> THEN Ratio(Cardinality(RepeatedWords(words)), Len(words)) ELSE Zero

\* lines 149-155 times 10, over the common denominator n = len(words):
\* 10 * (0.3 p/n + 0.2 s + 0.2 u/n + 0.2 c/n + 0.1 r/n) = (3p + 2sn + 2u + 2c + r) / n
WeightedSpeedNormalised(rd, sp, wc, cr, er) ==
    Ratio(10 * (3 * rd.num + 2 * wc.num + 2 * cr.num + er.num) + 2 * sp * rd.den, 10 * rd.den)

WeightedTimesTen(rd, sp, wc, cr, er) ==
    Ratio(3 * rd.num + 2 * sp * rd.den + 2 * wc.num + 2 * cr.num + er.num, rd.den)

ClampNoCeiling(x) == Ratio(Max(x.num, 0), x.den)

\* line 158: min(max(x, 0), 10)
Clamp(x) == Ratio(Min(Max(x.num, 0), 10 * x.den), x.den)

\* The locals at the return of line 160.
RatingLocals(words) ==
    [set               |-> TRUE,
     rhyme_pairs       |-> find_rhyme_pairs(Texts(words)),
     rhyme_density     |-> RhymeDensity(words),
     rap_speed_rating  |-> calculate_rap_speed(FlowData(words)),
     word_complexity   |-> WordComplexity(words),
     confidence_rating |-> ConfidenceRating(words),
     emphasis_rating   |-> EmphasisRating(words)]

OverallRating(l) ==
    Clamp(WeightedTimesTen(l.rhyme_density, l.rap_speed_rating, l.word_complexity,
                           l.confidence_rating, l.emphasis_rating))

\* line 112: if not response
NotResponse(r) == ~r.present

\* [rating, locals] of a call; the locals are Unset on the early returns
calculate_rap_rating(r) ==
    IF NotResponse(r) THEN [rating |-> Zero, locals |-> Unset]
    ELSE IF WordsOf(r) = <<>> THEN [rating |-> Zero, locals |-> Unset]
    ELSE LET l == RatingLocals(WordsOf(r))
         IN  [rating |-> OverallRating(l), locals |-> l]

-----------------------------------------------------------------------------
(* The analyzer's inputs: word lists of up to MaxWords words.  A word is    *)
(* drawn as <<text, duration, confidence>>; the words of a transcript      *)
(* follow one another from time 0.                                         *)

flow == <<"f", "l", "o", "w">>
glow == <<"g", "l", "o", "w">>
SLOW == <<"S", "L", "O", "W">>
ow == <<"o", "w">>
Ow == <<"O", "w">>
dog == <<"d", "o", "g">>

Vocabulary == {flow, glow, SLOW, ow, Ow, dog}

Durations == {1, 5, 7, 11}

\* texts vary
RhymeShapes == {<<t, 1, 95>> : t \in Vocabulary}
\* durations vary (low-confidence words)
SpeedShapes == {<<dog, d, 50>> : d \in Durations}
\* texts, durations and confidences vary together; 80 is the threshold itself
MixedShapes == {<<flow, 1, 95>>, <<glow, 1, 90>>, <<dog, 7, 50>>, <<SLOW, 5, 80>>, <<dog, 11, 79>>}

ShapeLists(S) == UNION {[1..n -> S] : n \in 0..MaxWords}

EndOf(shapes, i) == SumSeq([k \in 1..i |-> shapes[k][2]])

Timed(shapes) ==
    [i \in DOMAIN shapes |->
        [word |-> shapes[i][1], start |-> EndOf(shapes, i - 1), end |-> EndOf(shapes, i),
         confidence |-> shapes[i][3]]]

AnalyzerInputs ==
    {None, NoChannels, NoAlternatives}
    \cup {Response("lyrics", Timed(s)) :
            s \in ShapeLists(RhymeShapes) \cup ShapeLists(SpeedShapes) \cup ShapeLists(MixedShapes)}

\* the word list calculate_rap_rating works on ([] when there is none)
InputWords == IF response.present THEN WordsOf(response) ELSE <<>>

-----------------------------------------------------------------------------
(* The analyzer as a state machine: each function is called once on the input *)

IdleCompare == song1 = <<>> /\ song2 = <<>> /\ comparison = [outcome |-> "none"]
IdlePage == session = <<>> /\ lastRun = [page |-> "none"]

InitAnalyzer ==
    /\ response \in AnalyzerInputs
    /\ rating = Pending
    /\ locals = Unset
    /\ speed = Pending
    /\ IdleCompare
    /\ IdlePage

CallRapRating ==
    /\ ~rating.returned
    /\ LET r == calculate_rap_rating(response)
       IN  /\ rating' = Returned(r.rating)
           /\ locals' = r.locals
    /\ UNCHANGED <<response, speed, compareVars, pageVars>>

CallRapSpeed ==
    /\ ~speed.returned
    /\ speed' = Returned(calculate_rap_speed(FlowData(InputWords)))
    /\ UNCHANGED <<response, rating, locals, compareVars, pageVars>>

NextAnalyzer == CallRapRating \/ CallRapSpeed

SpecAnalyzer == InitAnalyzer /\ [][NextAnalyzer]_vars

-----------------------------------------------------------------------------
(* difflib.SequenceMatcher(None, a, b).ratio(), as called by music_comparison. *)
(* Positions are Python's: a[i] of the source is a[i + 1] here, and ranges    *)
(* alo..ahi are half open.                                                    *)

\* __chain_b: with autojunk (the default) and len(b) >= 200, the elements that
\* occur more than len(b) // 100 + 1 times are "popular" and are left out of b2j
Popular(b) ==
    IF Len(b) >= 200
    THEN {c \in Range(b) : Cardinality({j \in DOMAIN b : b[j] = c}) > (Len(b) \div 100) + 1}
    ELSE {}

\* find_longest_match's j2len: the length of the run of equal elements, all in
\* b2j, that ends at a[i], b[j] and stays inside a[alo:], b[blo:]
RunEndingAt(a, b, pop, alo, blo, i, j) ==
    LET limit == Min(i - alo, j - blo) + 1
        ok(m) == a[i + 1 - m] = b[j + 1 - m] /\ b[j + 1 - m] \notin pop
    IN  CHOOSE k \in 0..limit : (\A m \in 0..(k - 1) : ok(m)) /\ (k < limit => ~ok(k))

\* the first extension loop: the equal elements before the block that starts at
\* i, j, taken until the condition of the while first fails
ExtendBack(a, b, alo, blo, i, j) ==
    LET limit == Min(i - alo, j - blo)
        ok(m) == a[i - m] = b[j - m]
    IN  CHOOSE k \in 0..limit : (\A m \in 0..(k - 1) : ok(m)) /\ (k < limit => ~ok(k))

\* the second extension loop: the equal elements after the block (i, j: the
\* first positions after it)
ExtendForward(a, b, ahi, bhi, i, j) ==
    LET limit == Min(ahi - i, bhi - j)
        ok(m) == a[i + 1 + m] = b[j + 1 + m]
    IN  CHOOSE k \in 0..limit : (\A m \in 0..(k - 1) : ok(m)) /\ (k < limit => ~ok(k))

\* <<besti, bestj, bestsize>>.  The scan takes i, then j, upwards and keeps a
\* run only when it is strictly longer, so among the longest runs the one that
\* ends first wins; isjunk is None, so the two junk loops add nothing.
find_longest_match(a, b, alo, ahi, blo, bhi) ==
    LET pop == Popular(b)
        ends == {p \in (alo..(ahi - 1)) \X (blo..(bhi - 1)) :
                    a[p[1] + 1] = b[p[2] + 1] /\ b[p[2] + 1] \notin pop}
        run(p) == RunEndingAt(a, b, pop, alo, blo, p[1], p[2])
        bestsize == IF ends = {} THEN 0
                    ELSE CHOOSE k \in 1..Min(ahi - alo, bhi - blo) :
                            /\ \E p \in ends : run(p) = k
                            /\ \A p \in ends : run(p) <= k
        first == CHOOSE p \in ends :
                    /\ run(p) = bestsize
                    /\ \A q \in ends : run(q) = bestsize =>
                          (p[1] < q[1] \/ (p[1] = q[1] /\ p[2] <= q[2]))
        besti == IF bestsize = 0 THEN alo ELSE first[1] - bestsize + 1
        bestj == IF bestsize = 0 THEN blo ELSE first[2] - bestsize + 1
        back == ExtendBack(a, b, alo, blo, besti, bestj)
        fwd == ExtendForward(a, b, ahi, bhi, besti + bestsize, bestj + bestsize)
    IN  <<besti - back, bestj - back, bestsize + back + fwd>>

\* get_matching_blocks, summed as ratio() sums it: the longest match, then the
\* pieces to its left and to its right
RECURSIVE Matches(_, _, _, _, _, _)
Matches(a, b, alo, ahi, blo, bhi) ==
    LET x == find_longest_match(a, b, alo, ahi, blo, bhi)
        i == x[1]
        j == x[2]
        k == x[3]
    IN  IF k = 0 THEN 0
        ELSE k + (IF alo < i /\ blo < j THEN Matches(a, b, alo, i, blo, j) ELSE 0)
               + (IF i + k < ahi /\ j + k < bhi THEN Matches(a, b, i + k, ahi, j + k, bhi) ELSE 0)

\* ratio() * 100 = 2.0 * matches / (len(a) + len(b)) * 100; ratio() is 1.0 when
\* both are empty
SimilarityPercent(a, b) ==
    IF Len(a) + Len(b) = 0 THEN Ratio(100, 1)
    ELSE Ratio(200 * Matches(a, b, 0, Len(a), 0, Len(b)), Len(a) + Len(b))

-----------------------------------------------------------------------------
(* music_comparison *)

HighSimilarityInclusive(similarity) == similarity.num >= 70 * similarity.den

\* line 289: similarity > 70
HighSimilarity(similarity) == similarity.num > 70 * similarity.den

\* what pressing "Compare Songs" displays
CompareSongs(s1, s2) ==
    IF s1 # <<>> /\ s2 # <<>>
    THEN LET similarity == SimilarityPercent(Lower(s1), Lower(s2))
         IN  [outcome |-> IF HighSimilarity(similarity) THEN "warning" ELSE "success",
              similarity |-> similarity]
    ELSE [outcome |-> "error"]

-----------------------------------------------------------------------------
(* The lyrics typed into the two text areas *)

\* Longest lyric among the exhaustively enumerated ones.
MaxSongLen == 3

Alphabet == {"a", "A", "b"}

Repeat(c, n) == [i \in 1..n |-> c]

\* 70 % exactly: 7 matching characters out of 10 + 10
SevenOfTen == {Repeat("a", 7) \o Repeat("b", 3), Repeat("a", 10)}

\* long enough for autojunk, every character popular
LongLyrics == {Repeat("a", 200), Repeat("A", 200)}

SongTexts == UNION {[1..n -> Alphabet] : n \in 0..MaxSongLen} \cup SevenOfTen \cup LongLyrics

-----------------------------------------------------------------------------
(* The Music Comparison page as a state machine *)

IdleAnalyzer == response = None /\ rating = Pending /\ locals = Unset /\ speed = Pending

InitCompare ==
    /\ song1 \in SongTexts
    /\ song2 \in SongTexts
    /\ comparison = [outcome |-> "none"]
    /\ IdleAnalyzer
    /\ IdlePage

\* a page run with the button pressed
PressCompareSongs ==
    /\ comparison.outcome = "none"
    /\ comparison' = CompareSongs(song1, song2)
    /\ UNCHANGED <<song1, song2, analyzerVars, pageVars>>

\* a page run without the button: nothing is displayed
RerunMusicComparison ==
    /\ comparison.outcome # "none"
    /\ comparison' = [outcome |-> "none"]
    /\ UNCHANGED <<song1, song2, analyzerVars, pageVars>>

NextCompare == PressCompareSongs \/ RerunMusicComparison

SpecCompare == InitCompare /\ [][NextCompare]_vars

-----------------------------------------------------------------------------
(* rap_analyzer: one run of the page script *)

\* analyze_rap: what the detailed analysis displays
analyze_rap(r) ==
    LET words == WordsOf(r)
    IN  IF words = <<>> THEN [shown |-> "No word-level data available for analysis."]
        ELSE [shown               |-> "analysis",
              total_rhyme_pairs   |-> Len(find_rhyme_pairs(Texts(words))),
              unique_words        |-> Cardinality(Range(Texts(words))),
              low_confidence      |-> Len(LowConfidenceWords(words)),
              repeated_words      |-> Cardinality(RepeatedWords(words))]

StoreWithoutResponse(s, r) ==
    ("transcript" :> TranscriptOf(r)) @@ ("rap_rating" :> calculate_rap_rating(r).rating) @@ s

\* lines 183-195: st.session_state after a successful transcription
StoreAnalysis(s, r) ==
    ("transcript" :> TranscriptOf(r)) @@ ("rap_rating" :> calculate_rap_rating(r).rating)
        @@ ("response" :> r) @@ s

\* lines 206-217: the display at the end of a run, with the checkbox as given
Display(s, checkbox) ==
    IF {"transcript", "rap_rating"} \subseteq DOMAIN s
    THEN [transcript |-> s["transcript"],
          rap_rating |-> s["rap_rating"],
          detailed   |-> IF ~checkbox THEN [shown |-> "none"]
                         ELSE IF "response" \in DOMAIN s THEN analyze_rap(s["response"])
                         ELSE [shown |-> "AttributeError"]]
    ELSE [detailed |-> [shown |-> "nothing"]]

\* Longest word list of a transcript on the Rap Analyzer page.
MaxPageWords == 2

PageShapes == {<<flow, 1, 95>>, <<glow, 1, 90>>, <<dog, 7, 50>>}

Transcripts == {"first take", "second take"}

\* what the provider may answer
PageResponses ==
    {NoChannels, NoAlternatives}
    \cup {Response(t, Timed(sh)) :
            t \in Transcripts, sh \in UNION {[1..n -> PageShapes] : n \in 0..MaxPageWords}}

InitPage ==
    /\ session = <<>>
    /\ lastRun = [page |-> "none"]
    /\ IdleAnalyzer
    /\ IdleCompare

\* no file in the uploader: the script shows the uploader only
RunWithoutUpload ==
    /\ lastRun' = [page |-> "rap_analyzer", uploaded |-> FALSE, pressed |-> FALSE,
                   transcription |-> "none", rating_calls |-> 0,
                   display |-> [detailed |-> [shown |-> "nothing"]]]
    /\ UNCHANGED <<session, analyzerVars, compareVars>>

\* a file, "Analyze Rap" not pressed
RunWithoutPress ==
    \E checkbox \in BOOLEAN :
        /\ lastRun' = [page |-> "rap_analyzer", uploaded |-> TRUE, pressed |-> FALSE,
                       transcription |-> "none", rating_calls |-> 0,
                       display |-> Display(session, checkbox)]
        /\ UNCHANGED <<session, analyzerVars, compareVars>>

\* "Analyze Rap" pressed and transcribe_audio returns None
RunTranscriptionFailed ==
    \E checkbox \in BOOLEAN :
        /\ lastRun' = [page |-> "rap_analyzer", uploaded |-> TRUE, pressed |-> TRUE,
                       transcription |-> "failed", rating_calls |-> 0,
                       display |-> Display(session, checkbox)]
        /\ UNCHANGED <<session, analyzerVars, compareVars>>

\* "Analyze Rap" pressed and transcribe_audio returns a response
RunTranscriptionSucceeded ==
    \E r \in PageResponses, checkbox \in BOOLEAN :
        /\ session' = StoreAnalysis(session, r)
        /\ lastRun' = [page |-> "rap_analyzer", uploaded |-> TRUE, pressed |-> TRUE,
                       transcription |-> "ok", rating_calls |-> 1,
                       display |-> Display(session', checkbox)]
        /\ UNCHANGED <<analyzerVars, compareVars>>

Next ==
    \/ RunWithoutUpload
    \/ RunWithoutPress
    \/ RunTranscriptionFailed
    \/ RunTranscriptionSucceeded

Spec == InitPage /\ [][Next]_vars

-----------------------------------------------------------------------------
(* Properties of the analyzer, checked under SpecAnalyzer *)

\* the sum of end - start over the input's words, and their number
TotalDuration == SumSeq([i \in DOMAIN InputWords |-> InputWords[i].end - InputWords[i].start])
NumWords == Len(InputWords)

\* the last three characters of w (all of w when shorter), lower-cased
Suffix3(w) == LET k == Min(3, Len(w)) IN [i \in 1..k |-> LowerChar(w[Len(w) - k + i])]

Occurrences(list, x) == Cardinality({k \in DOMAIN list : list[k] = x})

\* C1 (as stated): the rhyme density len(rhyme_pairs) / len(words) that
\* calculate_rap_rating computes lies in [0, 1].
C1_RhymeDensityAtMostOne ==
    locals.set =>
        /\ 0 <= locals.rhyme_density.num
        /\ locals.rhyme_density.num <= locals.rhyme_density.den

\* C2: whatever the input (None, no channels, no alternatives, no words, or
\* any word list), calculate_rap_rating returns a rating in [0, 10].
C2_OverallRatingInRange ==
    rating.returned =>
        /\ rating.value.den > 0
        /\ 0 <= rating.value.num
        /\ rating.value.num <= 10 * rating.value.den

\* C2's case: a word list whose weighted sum times 10 exceeds 10 and is cut to 10.
C2_Witness ==
    /\ rating.returned
    /\ locals.set
    /\ LET l == locals
           x == WeightedTimesTen(l.rhyme_density, l.rap_speed_rating, l.word_complexity,
                                 l.confidence_rating, l.emphasis_rating)
       IN  x.num > 10 * x.den /\ rating.value.num = 10 * rating.value.den

\* C3: on empty input (None, no channels, no alternatives, no words)
\* calculate_rap_rating returns 0 having computed no sub-metric, each sub-metric
\* expression is 0 there, and calculate_rap_speed returns 0; calculate_rap_speed
\* returns 0 only on empty input, and a rating in 1..10 otherwise.
C3_EmptyInputAllZero ==
    /\ (rating.returned /\ InputWords = <<>>) =>
          /\ rating.value.num = 0
          /\ ~locals.set
          /\ RhymeDensity(InputWords).num = 0
          /\ WordComplexity(InputWords).num = 0
          /\ ConfidenceRating(InputWords).num = 0
          /\ EmphasisRating(InputWords).num = 0
    /\ speed.returned =>
          /\ (InputWords = <<>>) <=> (speed.value = 0)
          /\ InputWords # <<>> => speed.value \in 1..10

\* C3's case: a response without alternatives, both functions having returned.
C3_Witness == response = NoAlternatives /\ rating.returned /\ speed.returned

C5_SpeedThresholds ==
    (speed.returned /\ InputWords # <<>>) =>
        /\ speed.value = 10 - Cardinality({t \in 2..10 : TotalDuration >= t * NumWords})
        /\ TotalDuration = 2 * NumWords => speed.value = 9
        /\ TotalDuration = 10 * NumWords => speed.value = 1

\* C5's case: several words whose mean duration is exactly 0.2 s.
C5_Witness ==
    /\ speed.returned
    /\ NumWords >= 2
    /\ TotalDuration = 2 * NumWords

\* a mean duration of exactly 1.0 s is reached too
C5_OneSecondReached ==
    speed.returned /\ NumWords >= 2 /\ TotalDuration = 10 * NumWords

\* The transcript of C6: (flow, 0.0, 0.1, 0.95), (glow, 0.1, 0.2, 0.9), (dog, 0.2, 0.9, 0.5)
ScenarioWords ==
    << [word |-> flow, start |-> 0, end |-> 1, confidence |-> 95],
       [word |-> glow, start |-> 1, end |-> 2, confidence |-> 90],
       [word |-> dog, start |-> 2, end |-> 9, confidence |-> 50] >>

ScenarioReport(speedRating) ==
    /\ locals.rhyme_pairs = << <<flow, glow>> >>
    /\ locals.rhyme_density = Ratio(1, 3)
    /\ locals.rap_speed_rating = speedRating
    /\ speed.value = speedRating
    /\ locals.word_complexity = Ratio(3, 3)
    /\ locals.confidence_rating = Ratio(2, 3)
    /\ locals.emphasis_rating = Ratio(0, 3)
    /\ RatioEq(rating.value, Ratio(10, 1))

ScenarioAnalysed == InputWords = ScenarioWords /\ rating.returned /\ speed.returned

\* C6 (as stated): the scenario yields the pair (flow, glow), density 1/3, speed
\* rating 9, complexity 1, confidence 2/3, emphasis 0 and overall rating 10.
C6_ScenarioSpeedNine == ScenarioAnalysed => ScenarioReport(9)

\* C6 (amended): the same, with speed rating 8: the mean duration is exactly
\* 0.3 s, which the "< 0.3" branch excludes.
C6_ScenarioSpeedEight == ScenarioAnalysed => ScenarioReport(8)

\* C6's case: the scenario's transcript has been analysed.
C6_Witness == ScenarioAnalysed /\ locals.set

\* C10: the rating of a non-empty transcript is at least 2; it is 10 whenever
\* the speed rating is 5 or more, which is whenever the mean duration is below
\* 0.7 s; so a rating below 10 comes only with a speed rating of 4 or less.
C10_SpeedDominates ==
    (rating.returned /\ InputWords # <<>>) =>
        /\ locals.set
        /\ 2 * rating.value.den <= rating.value.num
        /\ (locals.rap_speed_rating >= 5) <=> (TotalDuration < 7 * NumWords)
        /\ locals.rap_speed_rating >= 5 => rating.value.num = 10 * rating.value.den
        /\ rating.value.num < 10 * rating.value.den => locals.rap_speed_rating <= 4

\* C10's case: speed rating 5 and no rhyme at all, yet the rating is 10.
C10_Witness ==
    /\ rating.returned
    /\ locals.set
    /\ locals.rap_speed_rating = 5
    /\ locals.rhyme_density.num = 0
    /\ rating.value.num = 10 * rating.value.den

\* a rating below 10 is reached (with a speed rating of 4 or less)
C10_BelowCeilingReached ==
    rating.returned /\ locals.set /\ rating.value.num < 10 * rating.value.den

-----------------------------------------------------------------------------
(* Properties of the Music Comparison page, checked under SpecCompare *)

Compared == comparison.outcome # "none"

\* x and y are the same text up to letter case
SameUpToCase(x, y) ==
    /\ Len(x) = Len(y)
    /\ \A i \in DOMAIN x : x[i] = y[i] \/ {x[i], y[i]} = {"a", "A"}

\* C7: comparing a non-empty text with itself, or with a text that differs
\* from it only in letter case, gives exactly 100 % and the plagiarism warning.
C7_SelfSimilarity ==
    (Compared /\ song1 # <<>> /\ SameUpToCase(song1, song2)) =>
        /\ comparison.outcome = "warning"
        /\ comparison.similarity.num = 100 * comparison.similarity.den

\* C7's case: two texts that differ in letter case only have been compared.
C7_Witness == Compared /\ song1 # <<>> /\ song1 # song2 /\ SameUpToCase(song1, song2)

\* C8: pressing Compare Songs gives an error and no similarity exactly when a
\* text is empty; otherwise a similarity in [0, 100] and the warning exactly
\* when it is strictly above 70, so exactly 70 is not flagged.
C8_CompareOutcomes ==
    Compared =>
        /\ comparison.outcome \in {"error", "warning", "success"}
        /\ (comparison.outcome = "error") <=> (song1 = <<>> \/ song2 = <<>>)
        /\ comparison.outcome = "error" => DOMAIN comparison = {"outcome"}
        /\ comparison.outcome # "error" =>
              /\ comparison.similarity.den > 0
              /\ 0 <= comparison.similarity.num
              /\ comparison.similarity.num <= 100 * comparison.similarity.den
              /\ (comparison.outcome = "warning") <=>
                    (comparison.similarity.num > 70 * comparison.similarity.den)
              /\ comparison.similarity.num = 70 * comparison.similarity.den =>
                    comparison.outcome = "success"

\* C8's case: a similarity of exactly 70 % has been displayed.
C8_Witness ==
    /\ Compared
    /\ comparison.outcome # "error"
    /\ comparison.similarity.num = 70 * comparison.similarity.den

-----------------------------------------------------------------------------
(* Properties of the Rap Analyzer page, checked under Spec *)

SessionKeys == {"transcript", "rap_rating", "response"}

\* C9: a run whose transcription fails does not call calculate_rap_rating and
\* leaves the session as it was; the session changes only in a run whose
\* transcription succeeds, which writes the three keys together; so whenever
\* transcript and rap_rating are there to display, the response is there too and
\* they are the transcript and the rating of that response.
C9_SessionWrittenTogether ==
    /\ [](({"transcript", "rap_rating"} \subseteq DOMAIN session) =>
            /\ DOMAIN session = SessionKeys
            /\ session["response"].present
            /\ session["transcript"] = TranscriptOf(session["response"])
            /\ session["rap_rating"] = calculate_rap_rating(session["response"]).rating)
    /\ [][/\ lastRun'.transcription = "failed" =>
                (session' = session /\ lastRun'.rating_calls = 0)
          /\ session' # session =>
                (lastRun'.transcription = "ok" /\ DOMAIN session' = SessionKeys)
          /\ DOMAIN session' \in {{}, SessionKeys}]_vars

\* C9's case: a transcription fails after an earlier one succeeded, and the
\* stored analysis is displayed in detail.
C9_Witness ==
    /\ lastRun.page = "rap_analyzer"
    /\ lastRun.transcription = "failed"
    /\ DOMAIN session = SessionKeys
    /\ lastRun.display.detailed.shown = "analysis"

====
